---------------------------- MODULE Spec2Model ----------------------------
(***************************************************************************)
(* A model of the HYBB Utility App (src/app.py): a Streamlit script over   *)
(* a Google Sheet (the row store) and a shared Drive folder (the blob      *)
(* store).  Every user interaction re-runs main() from the top; a run      *)
(* reads its widgets, and the remote calls it makes (files().create,       *)
(* append_row, get_all_values, update_cell) are the atomic steps that      *)
(* interleave with the runs of the other browser sessions.                 *)
(*                                                                         *)
(* Cells of the sheet are strings.  TLA+ strings cannot be indexed, so the *)
(* texts the model types into widgets or finds in cells are spelled out    *)
(* once in CharsOf, and strip, lower, contains, strftime and the timestamp *)
(* parser work on those character sequences.                               *)
(***************************************************************************)
EXTENDS Integers, Sequences, FiniteSets, TLC

\* ------------------------------------------------------------------ bounds

\* Requests the sheet may hold before the model stops appending.
MaxRows == 2
\* Files the Drive folder may hold before the model stops uploading.
MaxUploads == 2
\* Requests in the sheet a review specification starts from.
ReviewRows == 2
\* Requests in the sheet the dashboard specification starts from.
DashRows == 3

\* ---------------------------------------------------------------- sessions

Submitters == {"s1", "s2"}
Admins == {"a1", "a2"}

\* -------------------------------------------------------------------- text

Space == " "

CharsOf(s) ==
    CASE s = "" -> <<>>
      [] s = " " -> <<" ">>
      [] s = "Asha" -> <<"A", "s", "h", "a">>
      [] s = "ravi" -> <<"r", "a", "v", "i">>
      [] s = "E7" -> <<"E", "7">>
      [] s = "AS" -> <<"A", "S">>
      [] s = "e7 " -> <<"e", "7", " ">>
      [] s = "alice" -> <<"a", "l", "i", "c", "e">>
      [] s = "hybb-2024" -> <<"h", "y", "b", "b", "-", "2", "0", "2", "4">>
      [] s = "admin123" -> <<"a", "d", "m", "i", "n", "1", "2", "3">>
      [] s = " bob" -> <<" ", "b", "o", "b">>
      [] s = "ok" -> <<"o", "k">>
      [] s = "n/a" -> <<"n", "/", "a">>
      [] s = "2024-01-15 10:00:00" ->
           <<"2","0","2","4","-","0","1","-","1","5"," ","1","0",":","0","0",":","0","0">>
      [] s = "2024-02-01 09:30:05" ->
           <<"2","0","2","4","-","0","2","-","0","1"," ","0","9",":","3","0",":","0","5">>
      [] s = "2025-01-03 18:45:10" ->
           <<"2","0","2","5","-","0","1","-","0","3"," ","1","8",":","4","5",":","1","0">>
      [] s = "2024-02-30 10:00:00" ->
           <<"2","0","2","4","-","0","2","-","3","0"," ","1","0",":","0","0",":","0","0">>

Texts ==
    {"", " ", "Asha", "ravi", "E7", "AS", "e7 ", "alice", " bob", "ok", "n/a",
     "hybb-2024", "admin123",
     "2024-01-15 10:00:00", "2024-02-01 09:30:05", "2025-01-03 18:45:10",
     "2024-02-30 10:00:00"}

\* The string spelled by a character sequence.
Text(cs) == CHOOSE s \in Texts : CharsOf(s) = cs

\* str.strip(): leading and trailing whitespace removed.
RECURSIVE LStrip(_)
LStrip(cs) == IF cs # <<>> /\ Head(cs) = Space THEN LStrip(Tail(cs)) ELSE cs

RECURSIVE RStrip(_)
RStrip(cs) ==
    IF cs # <<>> /\ cs[Len(cs)] = Space THEN RStrip(SubSeq(cs, 1, Len(cs) - 1)) ELSE cs

Strip(cs) == RStrip(LStrip(cs))

LowerChar(c) ==
    CASE c = "A" -> "a"
      [] c = "E" -> "e"
      [] c = "S" -> "s"
      [] OTHER -> c

Lower(cs) == [k \in 1..Len(cs) |-> LowerChar(cs[k])]

\* Series.str.contains(pat, case=False): pat occurs somewhere, letter case ignored.
StrContains(s, pat) ==
    LET h == Lower(CharsOf(s))
        n == Lower(CharsOf(pat))
    IN \E k \in 0..(Len(h) - Len(n)) : SubSeq(h, k + 1, k + Len(n)) = n

\* Python truth of a str: non-empty.
Truthy(s) == s # ""

\* ------------------------------------------------------------------- clock

DigitChars == <<"0", "1", "2", "3", "4", "5", "6", "7", "8", "9">>

DigitChar(d) == DigitChars[d + 1]

IsDigit(c) == \E d \in 0..9 : DigitChar(d) = c

DigitVal(c) == CHOOSE d \in 0..9 : DigitChar(d) = c

TwoDigits(n) == <<DigitChar(n \div 10), DigitChar(n % 10)>>

FourDigits(n) == TwoDigits(n \div 100) \o TwoDigits(n % 100)

\* The instants datetime.now() returns in the model.
Clock ==
    {[y |-> 2024, mo |-> 1, d |-> 15, h |-> 10, mi |-> 0, s |-> 0],
     [y |-> 2024, mo |-> 2, d |-> 1, h |-> 9, mi |-> 30, s |-> 5]}

\* strftime("%Y-%m-%d %H:%M:%S")
Strftime(t) ==
    Text(FourDigits(t.y) \o <<"-">> \o TwoDigits(t.mo) \o <<"-">> \o TwoDigits(t.d)
         \o <<" ">> \o TwoDigits(t.h) \o <<":">> \o TwoDigits(t.mi) \o <<":">>
         \o TwoDigits(t.s))

\* ------------------------------------------------------------ the two stores

SHEET_HEADER ==
    <<"Timestamp", "Kitchen", "Employee Name", "Employee ID", "Photo URL",
      "Status", "Reviewer", "Comments">>

EmptyRow == <<"", "", "", "", "", "", "", "">>

\* The values inserted as the first row after the header.
M_AppendRow(sh, values) == <<sh[1], values>> \o Tail(sh)

\* Worksheet.append_row: the values become the row after the last one.
AppendRow(sh, values) == Append(sh, values)

\* The cell one column to the left.
M_UpdateCell(sh, row, col, value) ==
    LET grid == [r \in 1..(IF row > Len(sh) THEN row ELSE Len(sh)) |->
                    IF r <= Len(sh) THEN sh[r] ELSE EmptyRow]
    IN [grid EXCEPT ![row][col - 1] = value]

\* Worksheet.update_cell(row, col, value): 1-based, the header is row 1.  A row
\* below the used range is a blank grid row.
UpdateCell(sh, row, col, value) ==
    LET grid == [r \in 1..(IF row > Len(sh) THEN row ELSE Len(sh)) |->
                    IF r <= Len(sh) THEN sh[r] ELSE EmptyRow]
    IN [grid EXCEPT ![row][col] = value]

\* Worksheet.get_all_values(): every row of the used range, the header first.
GetAllValues(sh) == sh

\* The ids Drive gives to the files created, in order.
FileIds == <<"f1", "f2", "f3", "f4", "f5", "f6">>

FileId(n) == FileIds[n]

\* f"https://drive.google.com/uc?export=view&id={file_id}"
ViewUrl(id) ==
    CASE id = "f1" -> "https://drive.google.com/uc?export=view&id=f1"
      [] id = "f2" -> "https://drive.google.com/uc?export=view&id=f2"
      [] id = "f3" -> "https://drive.google.com/uc?export=view&id=f3"
      [] id = "f4" -> "https://drive.google.com/uc?export=view&id=f4"
      [] id = "f5" -> "https://drive.google.com/uc?export=view&id=f5"
      [] id = "f6" -> "https://drive.google.com/uc?export=view&id=f6"

\* ------------------------------------------------------------------- state

VARIABLES
    sheet,      \* the worksheet "Requests": a sequence of rows, the header first
    drive,      \* the ids of the files in the shared Drive folder
    secrets,    \* st.secrets: the configured admin_password, or NoSecret
    form,       \* submitter -> the widget values of its latest Submit click
    spc,        \* submitter -> where its run of main() stands
    img_url,    \* submitter -> the run's local img_url
    smsg,       \* submitter -> the message its latest run showed
    widgets,    \* admin -> the values of the sidebar and filter widgets
    apc,        \* admin -> where its run of main() stands
    click,      \* admin -> the button whose click started the run in progress
    data,       \* admin -> the run's local data (get_all_values), <<>> between runs
    page,       \* admin -> the buttons on the admin's screen
    dash        \* what the latest run of the Dashboard branch showed

svars == <<form, spc, img_url, smsg>>
avars == <<widgets, apc, click, data, page>>
vars == <<sheet, drive, secrets, form, spc, img_url, smsg, widgets, apc, click, data,
          page, dash>>

\* ------------------------------------------------------------ Submit Request

KITCHENS == <<"--Select--", "WFD01", "BSN01", "HSR01", "MAR01", "SKM01">>

NoPicture == "None"

Form(k, n, e, p) == [kitchen |-> k, emp_name |-> n, emp_id |-> e, picture |-> p]

NoForm == Form("--Select--", "", "", NoPicture)

\* any(...) in place of all(...).
M_AllFilled(f) ==
    \/ f.kitchen # "--Select--"
    \/ Truthy(f.emp_name)
    \/ Truthy(f.emp_id)
    \/ f.picture # NoPicture

\* all([kitchen != "--Select--", emp_name, emp_id, picture])
AllFilled(f) ==
    /\ f.kitchen # "--Select--"
    /\ Truthy(f.emp_name)
    /\ Truthy(f.emp_id)
    /\ f.picture # NoPicture

\* The row with the status "Approved" from the start.
M_RequestRow(now, f, url) ==
    <<Strftime(now), f.kitchen, f.emp_name, f.emp_id, url, "Approved", "", "">>

\* The row main() appends.
RequestRow(now, f, url) ==
    <<Strftime(now), f.kitchen, f.emp_name, f.emp_id, url, "Pending", "", "">>

\* The Submit Request button, with the widgets holding one of Forms: the run
\* validates them and, when all four are there, goes on to the upload.
SubmitClick(s, Forms) ==
    /\ spc[s] = "idle"
    /\ \E f \in Forms :
         /\ form' = [form EXCEPT ![s] = f]
         /\ IF ~AllFilled(f)
            THEN /\ smsg' = [smsg EXCEPT ![s] = "warning"]
                 /\ spc' = spc
            ELSE /\ smsg' = [smsg EXCEPT ![s] = ""]
                 /\ spc' = [spc EXCEPT ![s] = "upload"]
    /\ img_url' = [img_url EXCEPT ![s] = ""]
    /\ UNCHANGED <<sheet, drive, secrets, avars, dash>>

\* save_image_to_drive returns: the file exists and img_url is its view URL.
SaveImageToDrive(s) ==
    /\ spc[s] = "upload"
    /\ Cardinality(drive) < MaxUploads
    /\ LET id == FileId(Cardinality(drive) + 1)
       IN /\ drive' = drive \cup {id}
          /\ img_url' = [img_url EXCEPT ![s] = ViewUrl(id)]
    /\ spc' = [spc EXCEPT ![s] = "append"]
    /\ UNCHANGED <<sheet, secrets, form, smsg, avars, dash>>

\* The upload's exception swallowed: the run goes on to the append without a URL.
M_SaveImageFails(s) ==
    /\ spc[s] = "upload"
    /\ spc' = [spc EXCEPT ![s] = "append"]
    /\ UNCHANGED <<sheet, drive, secrets, form, img_url, smsg, widgets, apc, click, data,
                   page, dash>>

\* files().create(...).execute() raises: the exception ends the run.
SaveImageFails(s) ==
    /\ spc[s] = "upload"
    /\ spc' = [spc EXCEPT ![s] = "idle"]
    /\ smsg' = [smsg EXCEPT ![s] = "error"]
    /\ UNCHANGED <<sheet, drive, secrets, form, img_url, avars, dash>>

\* sheet.append_row returns, then st.success.  datetime.now() is one of Instants.
SubmitAppend(s, Instants) ==
    /\ spc[s] = "append"
    /\ Len(sheet) - 1 < MaxRows
    /\ \E now \in Instants :
         sheet' = AppendRow(sheet, RequestRow(now, form[s], img_url[s]))
    /\ spc' = [spc EXCEPT ![s] = "idle"]
    /\ smsg' = [smsg EXCEPT ![s] = "success"]
    /\ img_url' = [img_url EXCEPT ![s] = ""]
    /\ UNCHANGED <<drive, secrets, form, avars, dash>>

\* sheet.append_row raises: the exception ends the run.
SubmitAppendFails(s) ==
    /\ spc[s] = "append"
    /\ spc' = [spc EXCEPT ![s] = "idle"]
    /\ smsg' = [smsg EXCEPT ![s] = "error"]
    /\ img_url' = [img_url EXCEPT ![s] = ""]
    /\ UNCHANGED <<sheet, drive, secrets, form, avars, dash>>

\* ----------------------------------------------------------- Admin Dashboard

NoSecret == "<unset>"

\* st.secrets.get("admin_password", "admin123")
SecretsGet(sec, default) == IF sec = NoSecret THEN default ELSE sec

\* The password widget against "admin123" whatever is configured.
M_IsAdminUser(sec, w) == w.password = "admin123"

\* is_admin(): the password widget against the configured secret.
IsAdminUser(sec, w) == w.password = SecretsGet(sec, "admin123")

STATUS_COL == 6
REVIEWER_COL == 7
COMMENTS_COL == 8

\* The row number that forgets the header row.
M_RowNumber(i) == i + 1

\* The worksheet row of the request at DataFrame index i: i + 2.
RowNumber(i) == i + 2

DefaultWidgets ==
    [password |-> "", admin_name |-> "", admin_menu |-> "Pending Requests",
     kitchen_filter |-> "All", status_filter |-> "All", search_text |-> ""]

\* df = pd.DataFrame(data[1:], columns=data[0]): index 0 is the row after the header.
DfIndex(df) == 0..(Len(df) - 2)

ColumnOf(df, name) == CHOOSE c \in 1..Len(df[1]) : df[1][c] = name

\* df[name][i]
Field(df, i, name) == df[i + 2][ColumnOf(df, name)]

\* The rows of the panel: "Pending Requests" keeps Status == "Pending".
MenuRows(df, w) ==
    IF w.admin_menu = "Pending Requests"
    THEN {i \in DfIndex(df) : Field(df, i, "Status") = "Pending"}
    ELSE DfIndex(df)

\* The options of the two select boxes: "All" and the values among the panel's rows.
KitchenOptions(df, w) == {"All"} \cup {Field(df, i, "Kitchen") : i \in MenuRows(df, w)}
StatusOptions(df, w) == {"All"} \cup {Field(df, i, "Status") : i \in MenuRows(df, w)}

\* A select box whose value is no longer among its options shows the first, "All".
Offered(value, options) == IF value \in options THEN value ELSE "All"

\* The widget values a run that reaches the filters leaves behind.
FilterWidgets(df, w) ==
    [w EXCEPT !.kitchen_filter = Offered(w.kitchen_filter, KitchenOptions(df, w)),
              !.status_filter = Offered(w.status_filter, StatusOptions(df, w))]

\* filtered_df.index after the kitchen, status and search filters.
FilteredRows(df, w) ==
    {i \in MenuRows(df, w) :
        /\ w.kitchen_filter # "All" => Field(df, i, "Kitchen") = w.kitchen_filter
        /\ w.status_filter # "All" => Field(df, i, "Status") = w.status_filter
        /\ Strip(CharsOf(w.search_text)) # <<>> =>
              \/ StrContains(Field(df, i, "Employee Name"), w.search_text)
              \/ StrContains(Field(df, i, "Employee ID"), w.search_text)}

\* What a listing shows of the request a button belongs to.
Shown(df, i) ==
    [timestamp |-> Field(df, i, "Timestamp"), kitchen |-> Field(df, i, "Kitchen"),
     emp_name |-> Field(df, i, "Employee Name"), emp_id |-> Field(df, i, "Employee ID"),
     photo_url |-> Field(df, i, "Photo URL")]

ButtonKinds == <<"approve", "reject", "save_comment">>

KindOrder(k) == CHOOSE n \in 1..3 : ButtonKinds[n] = k

\* The buttons of a finished listing: three per row of filtered_df, keyed by i.
Listing(df, rows) ==
    {[kind |-> ButtonKinds[n], i |-> i, req |-> Shown(df, i)] : n \in 1..3, i \in rows}

\* The buttons rendered when the call for button b raised.
ListingUpTo(buttons, b) ==
    {x \in buttons : x.i < b.i \/ (x.i = b.i /\ KindOrder(x.kind) <= KindOrder(b.kind))}

NoClick == [kind |-> "none", i |-> 0 - 1, req |-> <<>>, text |-> ""]

Decision(kind) == IF kind = "approve" THEN "Approved" ELSE "Rejected"

\* One run of the Admin Dashboard branch up to its first cell write, with the
\* widgets holding w and button b clicked (NoClick: a widget was changed).  A
\* button is True in this run only if the run creates it, that is, if its row is
\* in filtered_df of the data the run has just read.
AdminRun(a, w, b) ==
    LET d == GetAllValues(sheet)
        fw == FilterWidgets(d, w)
        rows == FilteredRows(d, fw)
        stop(w2) ==
            /\ widgets' = [widgets EXCEPT ![a] = w2]
            /\ page' = [page EXCEPT ![a] = {}]
            /\ UNCHANGED <<apc, click, data>>
    IN /\ apc[a] = "idle"
       /\ IF ~IsAdminUser(secrets, w)
          THEN stop([DefaultWidgets EXCEPT !.password = w.password,
                                           !.admin_name = w.admin_name])
          ELSE IF Strip(CharsOf(w.admin_name)) = <<>>
          THEN stop([DefaultWidgets EXCEPT !.password = w.password,
                                           !.admin_name = w.admin_name])
          ELSE IF Len(d) < 2
          THEN stop([DefaultWidgets EXCEPT !.password = w.password,
                                           !.admin_name = w.admin_name,
                                           !.admin_menu = w.admin_menu])
          ELSE IF rows = {}
          THEN stop(fw)
          ELSE /\ widgets' = [widgets EXCEPT ![a] = fw]
               /\ IF b # NoClick /\ b.i \in rows
                  THEN /\ click' = [click EXCEPT ![a] = b]
                       /\ data' = [data EXCEPT ![a] = d]
                       /\ apc' = [apc EXCEPT ![a] =
                                    IF b.kind = "save_comment" THEN "comment" ELSE "status"]
                       /\ page' = page
                  ELSE /\ page' = [page EXCEPT ![a] = Listing(d, rows)]
                       /\ UNCHANGED <<apc, click, data>>
       /\ UNCHANGED <<sheet, drive, secrets, svars, dash>>

\* The admin sets one widget (Inputs: widget -> the values the model enters),
\* which re-runs main().
AdminInput(a, Inputs) ==
    \E f \in DOMAIN Inputs : \E v \in Inputs[f] :
        AdminRun(a, [widgets[a] EXCEPT ![f] = v], NoClick)

\* The admin clicks a button of the page (with one of Comments in its text area).
AdminClick(a, Comments) ==
    \E b \in page[a], c \in Comments :
        AdminRun(a, widgets[a],
                 [kind |-> b.kind, i |-> b.i, req |-> b.req,
                  text |-> IF b.kind = "save_comment" THEN c ELSE ""])

\* The listing the run in progress shows once it has passed every row.
RunListing(a) == Listing(data[a], FilteredRows(data[a], widgets[a]))

\* sheet.update_cell(i + 2, 6, "Approved" or "Rejected") returns.
AdminWriteStatus(a) ==
    /\ apc[a] = "status"
    /\ sheet' = UpdateCell(sheet, RowNumber(click[a].i), STATUS_COL, Decision(click[a].kind))
    /\ apc' = [apc EXCEPT ![a] = "reviewer"]
    /\ UNCHANGED <<drive, secrets, svars, widgets, click, data, page, dash>>

\* sheet.update_cell(i + 2, 7, admin_name) returns, then st.success and the rest
\* of the listing.
AdminWriteReviewer(a) ==
    /\ apc[a] = "reviewer"
    /\ sheet' = UpdateCell(sheet, RowNumber(click[a].i), REVIEWER_COL, widgets[a].admin_name)
    /\ apc' = [apc EXCEPT ![a] = "idle"]
    /\ page' = [page EXCEPT ![a] = RunListing(a)]
    /\ click' = [click EXCEPT ![a] = NoClick]
    /\ data' = [data EXCEPT ![a] = <<>>]
    /\ UNCHANGED <<drive, secrets, svars, widgets, dash>>

\* sheet.update_cell(i + 2, 8, comment) returns, then st.success and the rest of
\* the listing.
AdminWriteComment(a) ==
    /\ apc[a] = "comment"
    /\ sheet' = UpdateCell(sheet, RowNumber(click[a].i), COMMENTS_COL, click[a].text)
    /\ apc' = [apc EXCEPT ![a] = "idle"]
    /\ page' = [page EXCEPT ![a] = RunListing(a)]
    /\ click' = [click EXCEPT ![a] = NoClick]
    /\ data' = [data EXCEPT ![a] = <<>>]
    /\ UNCHANGED <<drive, secrets, svars, widgets, dash>>

\* sheet.update_cell raises: the exception ends the run, and the screen keeps
\* what the run had rendered up to the button.
AdminWriteFails(a) ==
    /\ apc[a] \in {"status", "reviewer", "comment"}
    /\ apc' = [apc EXCEPT ![a] = "idle"]
    /\ page' = [page EXCEPT ![a] = ListingUpTo(RunListing(a), click[a])]
    /\ click' = [click EXCEPT ![a] = NoClick]
    /\ data' = [data EXCEPT ![a] = <<>>]
    /\ UNCHANGED <<sheet, drive, secrets, svars, widgets, dash>>

\* ------------------------------------------------------------------ Dashboard

NaT == [y |-> 0, mo |-> 0, d |-> 0]

IsLeap(y) == (y % 4 = 0 /\ y % 100 # 0) \/ y % 400 = 0

DaysInMonth(y, mo) ==
    IF mo = 2 THEN (IF IsLeap(y) THEN 29 ELSE 28)
    ELSE IF mo \in {4, 6, 9, 11} THEN 30 ELSE 31

Num2(cs, k) == 10 * DigitVal(cs[k]) + DigitVal(cs[k + 1])

\* pd.to_datetime(value, errors="coerce") of one cell: the date of a text of the
\* form YYYY-MM-DD HH:MM:SS that names a real instant, NaT for any other text.
ToDatetime(s) ==
    LET cs == CharsOf(s)
        shaped ==
            /\ Len(cs) = 19
            /\ cs[5] = "-" /\ cs[8] = "-" /\ cs[11] = " " /\ cs[14] = ":" /\ cs[17] = ":"
            /\ \A k \in (1..19) \ {5, 8, 11, 14, 17} : IsDigit(cs[k])
    IN IF ~shaped THEN NaT
       ELSE LET y == 100 * Num2(cs, 1) + Num2(cs, 3)
                mo == Num2(cs, 6)
                d == Num2(cs, 9)
            IN IF /\ y >= 1 /\ mo \in 1..12 /\ d \in 1..DaysInMonth(y, mo)
                  /\ Num2(cs, 12) < 24 /\ Num2(cs, 15) < 60 /\ Num2(cs, 18) < 60
               THEN [y |-> y, mo |-> mo, d |-> d]
               ELSE NaT

MONTH_ABBR ==
    <<"Jan", "Feb", "Mar", "Apr", "May", "Jun", "Jul", "Aug", "Sep", "Oct", "Nov", "Dec">>

NaN == <<>>

\* Series.dt.strftime("%b %Y"): the month's name and the year, NaN for NaT.
MonthLabel(t) == IF t = NaT THEN NaN ELSE <<MONTH_ABBR[t.mo], t.y>>

\* groupby(..., dropna=False): a row with a NaN key is counted too.
RECURSIVE M_GroupSizes(_, _, _)
M_GroupSizes(df, i, acc) ==
    IF i > Len(df) - 2 THEN acc
    ELSE LET key == <<Field(df, i, "Kitchen"),
                      MonthLabel(ToDatetime(Field(df, i, "Timestamp")))>>
         IN M_GroupSizes(df, i + 1,
                IF key \in DOMAIN acc THEN [acc EXCEPT ![key] = @ + 1]
                ELSE [k \in DOMAIN acc \cup {key} |-> IF k = key THEN 1 ELSE acc[k]])

\* df.groupby(["Kitchen", "Month"]).size(): the rows are passed in order, a row
\* with a NaN key is dropped, and each other row adds one to its group.
RECURSIVE GroupSizes(_, _, _)
GroupSizes(df, i, acc) ==
    IF i > Len(df) - 2 THEN acc
    ELSE LET key == <<Field(df, i, "Kitchen"),
                      MonthLabel(ToDatetime(Field(df, i, "Timestamp")))>>
         IN GroupSizes(df, i + 1,
                IF key[2] = NaN THEN acc
                ELSE IF key \in DOMAIN acc THEN [acc EXCEPT ![key] = @ + 1]
                ELSE [k \in DOMAIN acc \cup {key} |-> IF k = key THEN 1 ELSE acc[k]])

\* tanker_summary: (Kitchen, Month) -> "Tanker Purchased".
TankerSummary(df) == GroupSizes(df, 0, <<>>)

NoDate == NaT

\* The Ticket Status table: the rows of the kitchen and, when a date is given, of
\* that calendar date.
TicketRows(df, kitchen_filter, date_filter) ==
    {i \in DfIndex(df) :
        /\ kitchen_filter # "All" => Field(df, i, "Kitchen") = kitchen_filter
        /\ date_filter # NoDate => ToDatetime(Field(df, i, "Timestamp")) = date_filter}

NoDash == [view |-> "none", summary |-> <<>>, rows |-> {}]

\* One run of the Dashboard branch with the view (one of Views), the kitchen and
\* the date (one of Dates) chosen.
DashboardRun(Views, Dates) ==
    LET df == GetAllValues(sheet)
    IN /\ IF Len(df) < 2
          THEN dash' = [NoDash EXCEPT !.view = "No data available yet."]
          ELSE \E v \in Views :
                 IF v = "Tanker Purchase Summary"
                 THEN dash' = [NoDash EXCEPT !.view = v, !.summary = TankerSummary(df)]
                 ELSE \E k \in {"All"} \cup {Field(df, i, "Kitchen") : i \in DfIndex(df)},
                         d \in Dates :
                        dash' = [NoDash EXCEPT !.view = v, !.rows = TicketRows(df, k, d)]
       /\ UNCHANGED <<sheet, drive, secrets, svars, avars>>

\* ----------------------------------------------------------- specifications

InitSessions ==
    /\ form = [s \in Submitters |-> NoForm]
    /\ spc = [s \in Submitters |-> "idle"]
    /\ img_url = [s \in Submitters |-> ""]
    /\ smsg = [s \in Submitters |-> ""]
    /\ widgets = [a \in Admins |-> DefaultWidgets]
    /\ apc = [a \in Admins |-> "idle"]
    /\ click = [a \in Admins |-> NoClick]
    /\ data = [a \in Admins |-> <<>>]
    /\ page = [a \in Admins |-> {}]
    /\ dash = NoDash

Jan15 == [y |-> 2024, mo |-> 1, d |-> 15, h |-> 10, mi |-> 0, s |-> 0]

\* What the sessions of the specifications enter.
ValidForm == Form("WFD01", "Asha", "E7", "jpeg")
AllForms ==
    {Form(k, n, e, p) : k \in {"--Select--", "WFD01"}, n \in {"", "Asha"},
                        e \in {"", "E7"}, p \in {NoPicture, "jpeg"}}
AdminName(a) == IF a = "a1" THEN "alice" ELSE " bob"
Credentials(a) == [password |-> {"", "admin123"}, admin_name |-> {"", AdminName(a)}]
Menus == [admin_menu |-> {"Pending Requests", "All Requests"}]
Filters ==
    [kitchen_filter |-> {"All", "BSN01"},
     status_filter |-> {"All", "Pending", "Approved"},
     search_text |-> {"", " ", "AS", "e7 "}]
ReviewCredentials ==
    [password |-> {"", "admin123", "hybb-2024"}, admin_name |-> {"", " ", "alice"}]

\* ---- Spec: one submitter, one admin and the dashboard, with every store call
\* ---- free to fail.

Init ==
    /\ sheet = <<SHEET_HEADER>>
    /\ drive = {}
    /\ secrets = NoSecret
    /\ InitSessions

Next ==
    \/ SubmitClick("s1", {ValidForm, Form("WFD01", "Asha", "E7", NoPicture)})
    \/ SaveImageToDrive("s1")
    \/ SaveImageFails("s1")
    \/ SubmitAppend("s1", {Jan15})
    \/ SubmitAppendFails("s1")
    \/ AdminInput("a1", Credentials("a1") @@ Menus)
    \/ AdminClick("a1", {"ok"})
    \/ AdminWriteStatus("a1")
    \/ AdminWriteReviewer("a1")
    \/ AdminWriteComment("a1")
    \/ AdminWriteFails("a1")
    \/ DashboardRun({"Tanker Purchase Summary"}, {NoDate})

Spec == Init /\ [][Next]_vars

\* ---- SpecAdmins: one submitter and two admins at once.

NextAdmins ==
    \/ SubmitClick("s1", {ValidForm})
    \/ SaveImageToDrive("s1")
    \/ SubmitAppend("s1", {Jan15})
    \/ \E a \in Admins :
         \/ AdminInput(a, Credentials(a))
         \/ AdminClick(a, {"ok"})
         \/ AdminWriteStatus(a)
         \/ AdminWriteReviewer(a)
         \/ AdminWriteComment(a)

SpecAdmins == Init /\ [][NextAdmins]_vars

\* ---- SpecSubmit: two submitters, every form, every store call free to fail.

NextSubmit ==
    \/ SubmitClick("s1", AllForms)
    \/ SubmitClick("s2", {Form("BSN01", "ravi", "E7", "jpeg"), NoForm})
    \/ \E s \in Submitters :
         \/ SaveImageToDrive(s)
         \/ SaveImageFails(s)
         \/ SubmitAppend(s, Clock)
         \/ SubmitAppendFails(s)

SpecSubmit == Init /\ [][NextSubmit]_vars

\* ---- SpecReview: one admin session alone with a sheet of requests, every
\* ---- credential and every filter, no failing call.

\* The k-th request of a review sheet, Pending or already decided by " bob".
ReviewRow(k, status) ==
    <<Strftime(Jan15), IF k % 2 = 1 THEN "WFD01" ELSE "BSN01",
      IF k % 2 = 1 THEN "Asha" ELSE "ravi", "E7", ViewUrl(FileId(k)), status,
      IF status = "Pending" THEN "" ELSE " bob", "">>

ReviewSheets ==
    UNION {{<<SHEET_HEADER>> \o [k \in 1..n |-> ReviewRow(k, st[k])] :
                st \in [1..n -> {"Pending", "Approved"}]} : n \in 0..ReviewRows}

InitReview ==
    /\ sheet \in ReviewSheets
    /\ drive = {FileId(k) : k \in 1..(Len(sheet) - 1)}
    /\ secrets \in {NoSecret, "hybb-2024"}
    /\ InitSessions

NextReview ==
    \/ AdminInput("a1", ReviewCredentials @@ Menus @@ Filters)
    \/ AdminClick("a1", {"ok"})
    \/ AdminWriteStatus("a1")
    \/ AdminWriteReviewer("a1")
    \/ AdminWriteComment("a1")

SpecReview == InitReview /\ [][NextReview]_vars

\* ---- SpecDash: the dashboard over a sheet whose Timestamp cells may have been
\* ---- edited by hand.

DashTimestamps ==
    {"2024-01-15 10:00:00", "2024-02-01 09:30:05", "2025-01-03 18:45:10",
     "2024-02-30 10:00:00", "n/a"}

DashSheets ==
    UNION {{<<SHEET_HEADER>> \o
              [k \in 1..n |-> <<c[k][1], c[k][2], "Asha", "E7", ViewUrl(FileId(k)),
                               "Pending", "", "">>] :
                c \in [1..n -> DashTimestamps \X {"WFD01", "BSN01"}]} : n \in 0..DashRows}

InitDash ==
    /\ sheet \in DashSheets
    /\ drive = {FileId(k) : k \in 1..(Len(sheet) - 1)}
    /\ secrets = NoSecret
    /\ InitSessions

NextDash ==
    DashboardRun({"Tanker Purchase Summary", "Ticket Status"},
                 {[y |-> 2024, mo |-> 1, d |-> 15]})

SpecDash == InitDash /\ [][NextDash]_vars

\* ------------------------------------------------------------------ claims

\* The requests of a sheet: its rows after the header.
Requests(sh) == Tail(sh)

\* The identity fields of a row.
ReqOf(row) ==
    [timestamp |-> row[1], kitchen |-> row[2], emp_name |-> row[3], emp_id |-> row[4],
     photo_url |-> row[5]]

\* A required input of a submission is missing.
Missing(f) ==
    \/ f.kitchen = "--Select--"
    \/ f.emp_name = ""
    \/ f.emp_id = ""
    \/ f.picture = NoPicture

DriveUrls == {ViewUrl(id) : id \in drive}

ClockTexts == {Strftime(now) : now \in Clock}

\* Submitter s took a step.
Acted(s) == <<form[s], spc[s], img_url[s], smsg[s]>> # <<form'[s], spc'[s], img_url'[s], smsg'[s]>>

\* C1: a submission with all four inputs present is never answered with the
\* validation warning, and the step in which it reports success appends exactly
\* one row to the sheet: the row carries the submitted site, name and id, the
\* URL of the photo this submission uploaded (non-empty, of a file in the
\* drive), status "Pending" and empty reviewer and comment, and every row that
\* was there stays as it was.
C1_ValidSubmitAppendsOnePendingRow ==
    [][\A s \in Submitters :
         /\ (Acted(s) /\ ~Missing(form'[s]) /\ spc[s] = "idle") =>
                (spc'[s] = "upload" /\ smsg'[s] # "warning")
         /\ (Acted(s) /\ smsg'[s] = "success") =>
                /\ ~Missing(form[s])
                /\ Len(sheet') = Len(sheet) + 1
                /\ SubSeq(sheet', 1, Len(sheet)) = sheet
                /\ LET row == sheet'[Len(sheet')]
                   IN /\ row[1] \in ClockTexts
                      /\ <<row[2], row[3], row[4]>> =
                            <<form[s].kitchen, form[s].emp_name, form[s].emp_id>>
                      /\ row[5] = img_url[s] /\ row[5] # "" /\ row[5] \in DriveUrls
                      /\ <<row[6], row[7], row[8]>> = <<"Pending", "", "">>
      ]_vars

\* C1's case: both submitters have been told of success and the sheet holds
\* their two requests.
C1_Witness ==
    /\ \A s \in Submitters : smsg[s] = "success"
    /\ Len(sheet) = 3
    /\ sheet[2][2] # sheet[3][2]

\* C2: a Submit click with a required input missing shows the validation
\* warning and ends the run at once, uploads nothing and leaves the sheet as it
\* was; no row of the sheet ever comes from such a form.
C2_MissingInputWarnsAndWritesNothing ==
    [][/\ \A s \in Submitters :
            (Acted(s) /\ Missing(form'[s])) =>
                /\ smsg'[s] = "warning"
                /\ spc'[s] = "idle"
                /\ sheet' = sheet
                /\ drive' = drive
       /\ \A r \in 2..Len(sheet') :
            sheet'[r][2] # "--Select--" /\ sheet'[r][3] # "" /\ sheet'[r][4] # ""
                /\ sheet'[r][5] # ""
      ]_vars

\* C2's case: a form with only the photo missing was warned about after
\* requests had been stored, and nothing of it reached the stores.
C2_Witness ==
    /\ smsg["s1"] = "warning"
    /\ form["s1"] = Form("WFD01", "Asha", "E7", NoPicture)
    /\ Len(sheet) = 2
    /\ Cardinality(drive) = 1

\* C8: the photo is uploaded before the row is appended (a run about to append
\* holds the URL of a file in the drive, and only such a run grows the sheet);
\* a failed upload ends the run with an error and changes neither store; a
\* failed append ends the run with an error, leaves the sheet as it was and
\* the uploaded file in the drive; success is reported only by the step that
\* appends, and no row has an empty photo URL.
C8_UploadThenAppendOrFail ==
    [][/\ \A s \in Submitters :
            /\ spc'[s] = "append" => (img_url'[s] # "" /\ img_url'[s] \in DriveUrls')
            /\ (spc[s] = "upload" /\ spc'[s] = "idle") =>
                   (smsg'[s] = "error" /\ sheet' = sheet /\ drive' = drive)
            /\ (spc[s] = "append" /\ spc'[s] = "idle" /\ sheet' = sheet) =>
                   (smsg'[s] = "error" /\ drive' = drive /\ img_url[s] \in DriveUrls')
            /\ (Acted(s) /\ smsg'[s] = "success") =>
                   (spc[s] = "append" /\ Len(sheet') = Len(sheet) + 1)
       /\ Len(sheet') > Len(sheet) =>
            \E s \in Submitters :
                spc[s] = "append" /\ smsg'[s] = "success"
                    /\ sheet'[Len(sheet')][5] = img_url[s]
       /\ \A r \in 2..Len(sheet') : sheet'[r][5] # ""
      ]_vars

\* C8's case: an append failed after its upload, so the drive holds a photo no
\* row records, and an upload of the other submitter failed.
C8_Witness ==
    /\ smsg["s1"] = "error" /\ smsg["s2"] = "error"
    /\ Cardinality(drive) = 1
    /\ Len(sheet) = 1

\* The password st.secrets yields: the configured one, "admin123" when none is.
EffectiveSecret == IF secrets = NoSecret THEN "admin123" ELSE secrets

\* A reviewer name that is empty or whitespace only.
Blank(s) == \A k \in 1..Len(CharsOf(s)) : CharsOf(s)[k] = " "

GateClosed(a) == widgets[a].password # EffectiveSecret \/ Blank(widgets[a].admin_name)

\* C4: a session whose password is not the secret, or whose reviewer name is
\* blank, has no request on its screen and no run that has read the sheet or
\* is about to write a cell; every step that changes the sheet is the cell
\* write of a session whose password is the secret and whose name is not blank.
C4_ReviewIsGated ==
    [][/\ \A a \in Admins :
            GateClosed(a)' =>
                (page'[a] = {} /\ apc'[a] = "idle" /\ data'[a] = <<>> /\ click'[a] = NoClick)
       /\ sheet' # sheet =>
            \E a \in Admins :
                /\ ~GateClosed(a)
                /\ apc[a] \in {"status", "reviewer", "comment"}
                /\ apc'[a] # apc[a]
      ]_vars

\* C4's case: a secret is configured, requests exist, and a session that had
\* decided a request as alice now holds the fallback password instead: its
\* screen is empty.
C4_Witness ==
    /\ secrets = "hybb-2024"
    /\ widgets["a1"].password = "admin123"
    /\ widgets["a1"].admin_name = "alice"
    /\ \E r \in 2..Len(sheet) : sheet[r][7] = "alice"
    /\ \E r \in 2..Len(sheet) : sheet[r][6] = "Pending"

\* C3: in a session alone with the sheet, the run of a click on Approve or
\* Reject of a listed request ends with the sheet it read (data) changed in
\* exactly two cells, the status and the reviewer of the row that holds the
\* request the button was shown with: the status is the decision, the reviewer
\* is the name in the sidebar, and every other cell, row and the number of rows
\* are as read.  The first write changes the status cell alone.
C3_DecisionChangesOnlyItsRow ==
    [][\A a \in Admins :
         LET before == data[a]
             target == {r \in 2..Len(before) : ReqOf(before[r]) = click[a].req}
             decision == IF click[a].kind = "approve" THEN "Approved" ELSE "Rejected"
         IN /\ (apc[a] = "status" /\ apc'[a] = "reviewer") =>
                   /\ Cardinality(target) = 1
                   /\ \A r \in target : sheet' = [before EXCEPT ![r][6] = decision]
            /\ (apc[a] = "reviewer" /\ apc'[a] = "idle") =>
                   /\ Cardinality(target) = 1
                   /\ \A r \in target :
                        sheet' = [before EXCEPT ![r][6] = decision,
                                                ![r][7] = widgets[a].admin_name]
      ]_vars

\* C3's case: the Pending panel, narrowed by the kitchen filter to the second
\* request alone, still shows the buttons of the run in which alice rejected
\* it; the first request, which the filter hides, is Pending still.
C3_Witness ==
    /\ Len(sheet) = 3
    /\ apc["a1"] = "idle"
    /\ widgets["a1"].admin_menu = "Pending Requests"
    /\ widgets["a1"].kitchen_filter = "BSN01"
    /\ page["a1"] # {}
    /\ \A b \in page["a1"] : b.i = 1
    /\ <<sheet[3][6], sheet[3][7]>> = <<"Rejected", "alice">>
    /\ <<sheet[2][6], sheet[2][7]>> = <<"Pending", "">>

\* C5: no step deletes or moves a row or touches the header, and every row
\* keeps its timestamp, site, employee name, employee id and photo URL.
C5_IdentityFieldsAreImmutable ==
    [][/\ Len(sheet') >= Len(sheet)
       /\ sheet'[1] = sheet[1]
       /\ \A r \in 2..Len(sheet) : ReqOf(sheet'[r]) = ReqOf(sheet[r])
      ]_vars

\* C5's case: two requests are stored, the first decided and commented by
\* alice, and the dashboard has summarised them.
C5_Witness ==
    /\ Len(sheet) = 3
    /\ sheet[2][6] = "Rejected" /\ sheet[2][7] = "alice" /\ sheet[2][8] = "ok"
    /\ dash.view = "Tanker Purchase Summary"
    /\ sheet[2][5] # sheet[3][5]

\* C6 (as claimed): when an admin's decision completes and no other admin has
\* a decision in progress on the same row, the row's status is that admin's
\* decision and its reviewer that admin's name.
C6_LastDecisionWinsWhole ==
    [][\A a \in Admins :
         (/\ apc[a] = "reviewer" /\ apc'[a] = "idle"
          /\ \A o \in Admins \ {a} :
                apc[o] \notin {"status", "reviewer"} \/ click[o].i # click[a].i) =>
             LET row == Requests(sheet')[click[a].i + 1]
             IN /\ row[7] = widgets[a].admin_name
                /\ row[6] = (IF click[a].kind = "approve" THEN "Approved" ELSE "Rejected")
      ]_vars

\* C7 (as claimed): in every state of the sheet a decided request has a
\* reviewer and a Pending one has none.  (No cell write of the program sets a
\* status back to "Pending", so a Pending request is one never decided.)
C7_DecidedRowsHaveReviewer ==
    \A r \in 2..Len(sheet) :
        /\ sheet[r][6] \in {"Approved", "Rejected"} => sheet[r][7] # ""
        /\ sheet[r][6] = "Pending" => sheet[r][7] = ""

\* An admin's run wrote a cell in this step.
Wrote(a) == apc[a] \in {"status", "reviewer", "comment"} /\ apc'[a] # apc[a] /\ sheet' # sheet

MonthOf(s) == LET t == ToDatetime(s) IN IF t = NaT THEN NaT ELSE [y |-> t.y, mo |-> t.mo, d |-> 0]

Parseable(sh) == {r \in 2..Len(sh) : MonthOf(sh[r][1]) # NaT}

RECURSIVE SumOver(_, _)
SumOver(f, S) ==
    IF S = {} THEN 0 ELSE LET x == CHOOSE x \in S : TRUE IN f[x] + SumOver(f, S \ {x})

\* C9: a run of the purchase summary leaves the sheet as it was and shows one
\* entry for each (site, calendar month) pair among the requests whose
\* timestamp parses, and no other; each entry counts the requests of its site
\* and month, so the counts add up to the number of requests whose timestamp
\* parses.
C9_SummaryCountsPerSiteAndMonth ==
    [][dash'.view = "Tanker Purchase Summary" =>
         LET s == dash'.summary
             pairs == {<<sheet[r][2], MonthOf(sheet[r][1])>> : r \in Parseable(sheet)}
             keyOf(p) == <<p[1], <<MONTH_ABBR[p[2].mo], p[2].y>>>>
         IN /\ sheet' = sheet
            /\ DOMAIN s = {keyOf(p) : p \in pairs}
            /\ Cardinality(DOMAIN s) = Cardinality(pairs)
            /\ \A p \in pairs :
                 s[keyOf(p)] = Cardinality({r \in Parseable(sheet) :
                                   <<sheet[r][2], MonthOf(sheet[r][1])>> = p})
            /\ SumOver(s, DOMAIN s) = Cardinality(Parseable(sheet))
      ]_vars

\* C9's case: of three requests one has a timestamp that does not parse and the
\* other two are of one site in January 2024 and January 2025: two entries
\* of one request each.
C9_Witness ==
    /\ dash.view = "Tanker Purchase Summary"
    /\ Len(sheet) = 4
    /\ Cardinality(Parseable(sheet)) = 2
    /\ DOMAIN dash.summary = {<<"WFD01", <<"Jan", 2024>>>>, <<"WFD01", <<"Jan", 2025>>>>}

=============================================================================
